---- MODULE Spec2Model ----
(***************************************************************************)
(* A model of react-environment-interface (src/src/index.tsx):             *)
(*   - createEmitter: the listeners array, emit (Array.prototype.forEach   *)
(*     over the live array), subscribe (push) and the disposer it returns  *)
(*     (splice(indexOf(listener), 1));                                     *)
(*   - defineEnvironment: the context with its null default, the reader    *)
(*     useEnvironment, createEnvironment and EnvironmentProvider, rendered *)
(*     depth-first over a component tree.                                  *)
(* Listeners are user code: while one runs it may subscribe, call any      *)
(* disposer, throw or return. emit is called by the emitter's owner, one   *)
(* call at a time; a call that has ended is kept, with how it ended,       *)
(* until its caller goes on.                                               *)
(***************************************************************************)
EXTENDS Integers, Sequences, FiniteSets

VARIABLES
    listeners,   \* createEmitter's `listeners` array (index.tsx:19)
    disposers,   \* one record per subscribe call: the closure returned at :28
    pass,        \* the emit call in progress, or the one that has just ended
    path,        \* the components being rendered, root first
    current,     \* the context's current value during the render
    valueStack,  \* the values shadowed by the Providers on the path
    created      \* the last createEnvironment call

emitterVars == <<listeners, disposers, pass>>
envVars == <<path, current, valueStack, created>>
vars == <<listeners, disposers, pass, path, current, valueStack, created>>

(* ------------------------------ bounds -------------------------------- *)

MaxSubs == 3
MaxDisposals == 3
MaxTreeDepth == 3

ListenerIds == {"A", "B", "C"}
Events == {"VISIBLE", "HIDDEN"}
Environments == {"E1", "E2"}
Exceptions == {"X1", "X2"}

(* ------------------------- JavaScript arrays -------------------------- *)

Min(a, b) == IF a < b THEN a ELSE b
Max(a, b) == IF a > b THEN a ELSE b

\* Array.prototype.indexOf: the 0-based index of the first element that is
\* the same reference, -1 when there is none.
IndexOf(arr, x) ==
    IF \E i \in 1..Len(arr) : arr[i] = x
    THEN (CHOOSE i \in 1..Len(arr) :
              arr[i] = x /\ \A j \in 1..(i - 1) : arr[j] # x) - 1
    ELSE -1

\* Array.prototype.splice(start, deleteCount): a negative start counts from
\* the end of the array.
Splice(arr, start, deleteCount) ==
    LET len == Len(arr)
        actualStart == IF start < 0 THEN Max(len + start, 0) ELSE Min(start, len)
        actualDelete == Min(Max(deleteCount, 0), len - actualStart)
    IN  SubSeq(arr, 1, actualStart) \o SubSeq(arr, actualStart + actualDelete + 1, len)

\* a push at the wrong end of the array
PushFront(arr, x) == <<x>> \o arr

\* Array.prototype.push
Push(arr, x) == Append(arr, x)

\* The disposer's body: listeners.splice(listeners.indexOf(listener), 1)
Disposed(arr, listener) == Splice(arr, IndexOf(arr, listener), 1)

(* ------------------------------ emitter ------------------------------- *)

NoPass ==
    [event |-> "none", len |-> 0, k |-> 0, running |-> FALSE, start |-> <<>>,
     startSubs |-> <<>>, log |-> <<>>, outcome |-> "none"]

Idle == pass.outcome = "none"
\* user code is running: the caller of the emitter, or a listener
UserCode == Idle \/ pass.running
\* forEach is between two callbacks
Iterating == pass.outcome = "running" /\ ~pass.running

\* number of disposer calls made so far
RECURSIVE Disposals(_)
Disposals(ds) ==
    IF ds = <<>> THEN 0 ELSE ds[1].calls + Disposals(Tail(ds))

\* subscribe(listener), index.tsx:25-31
Subscribe(l) ==
    /\ UserCode
    /\ Len(disposers) < MaxSubs
    /\ listeners' = Push(listeners, l)
    /\ disposers' = Append(disposers,
                           [listener |-> l, calls |-> 0, inEmit |-> FALSE])
    /\ UNCHANGED <<pass, envVars>>

\* a call of the disposer returned by the d-th subscribe, index.tsx:28-30
Dispose(d) ==
    /\ UserCode
    /\ d \in DOMAIN disposers
    /\ Disposals(disposers) < MaxDisposals
    /\ listeners' = Disposed(listeners, disposers[d].listener)
    /\ disposers' = [disposers EXCEPT ![d].calls = @ + 1,
                                      ![d].inEmit = @ \/ ~Idle]
    /\ UNCHANGED <<pass, envVars>>

\* emit(event) is called: forEach reads the array's length once, index.tsx:22-23
Emit(e) ==
    /\ Idle
    /\ pass' = [event |-> e, len |-> Len(listeners), k |-> 0,
                running |-> FALSE, start |-> listeners,
                startSubs |-> disposers, log |-> <<>>,
                outcome |-> "running"]
    /\ UNCHANGED <<listeners, disposers, envVars>>

\* forEach's callback: (listener) => listener(event)
Invoke(f, listener) ==
    [f EXCEPT !.running = TRUE,
              !.log = Append(@, [listener |-> listener, event |-> f.event])]

\* one iteration of forEach: index k of the live array is visited when it
\* is still an index of the array, and skipped otherwise
ForEachStep ==
    /\ Iterating
    /\ pass.k < pass.len
    /\ IF pass.k < Len(listeners)
       THEN pass' = Invoke(pass, listeners[pass.k + 1])
       ELSE pass' = [pass EXCEPT !.k = @ + 1]
    /\ UNCHANGED <<listeners, disposers, envVars>>

\* the running listener returns; forEach moves to the next index
ListenerReturn ==
    /\ pass.running
    /\ pass' = [pass EXCEPT !.running = FALSE, !.k = @ + 1]
    /\ UNCHANGED <<listeners, disposers, envVars>>

\* forEach has visited every index below the length it read: emit returns
EmitReturn ==
    /\ Iterating
    /\ pass.k >= pass.len
    /\ pass' = [pass EXCEPT !.outcome = "returned"]
    /\ UNCHANGED <<listeners, disposers, envVars>>

\* the running listener throws: emit has no try/catch, so forEach is
\* abandoned and the exception reaches emit's caller
ListenerThrow ==
    /\ pass.running
    /\ pass' = [pass EXCEPT !.running = FALSE, !.outcome = "threw"]
    /\ UNCHANGED <<listeners, disposers, envVars>>

\* the caller of an emit that has ended goes on
Resume ==
    /\ pass.outcome \in {"returned", "threw"}
    /\ pass' = NoPass
    /\ UNCHANGED <<listeners, disposers, envVars>>

NextEmitter ==
    \/ \E l \in ListenerIds : Subscribe(l)
    \/ \E d \in 1..MaxSubs : Dispose(d)
    \/ \E e \in Events : Emit(e)
    \/ ForEachStep
    \/ ListenerReturn
    \/ EmitReturn
    \/ ListenerThrow
    \/ Resume

(* ---------------------------- environment ----------------------------- *)

\* a context seeded with an environment instead of null
environmentContextSeeded == [defaultValue |-> "E1"]

\* React.createContext(null as unknown as T), index.tsx:38
environmentContext == [defaultValue |-> "null"]

NoCreate == [calls |-> 0, constr |-> <<>>, outcome |-> [kind |-> "none", value |-> "none"]]

\* what a call of a zero-argument factory does: it returns a value or throws
Outcomes ==
    {[kind |-> "return", value |-> e] : e \in Environments}
        \cup {[kind |-> "throw", value |-> x] : x \in Exceptions}
\* a factory, by what its first and its second call do
Factories == [1..2 -> Outcomes]

\* the factory called a second time, and that call's result passed on
createEnvironmentTwice(constr) == [calls |-> 2, constr |-> constr, outcome |-> constr[2]]

\* createEnvironment = (constr) => constr(), index.tsx:40
createEnvironment(constr) == [calls |-> 1, constr |-> constr, outcome |-> constr[1]]

CreateEnvironment ==
    /\ \E constr \in Factories : created' = createEnvironment(constr)
    /\ UNCHANGED <<path, current, valueStack, emitterVars>>

\* React enters a context Provider: the value it shadows is kept
pushProvider(value) ==
    /\ valueStack' = Append(valueStack, current)
    /\ current' = value

\* React leaves a context Provider: the shadowed value is current again
popProvider ==
    /\ current' = valueStack[Len(valueStack)]
    /\ valueStack' = SubSeq(valueStack, 1, Len(valueStack) - 1)

\* <environmentContext.Provider value={environment}>, index.tsx:46
ProviderValue(environment) == environment

\* a reader that ignores the Providers
useEnvironmentDefault == environmentContext.defaultValue

\* useEnvironment = () => React.useContext(environmentContext), index.tsx:39
useEnvironment == current

Node(kind, environment, read) ==
    [kind |-> kind, environment |-> environment, read |-> read, lastChild |-> "none"]

\* <EnvironmentProvider environment={environment}> starts to render its children
EnvironmentProvider(environment) ==
    /\ Len(path) < MaxTreeDepth
    /\ pushProvider(ProviderValue(environment))
    /\ path' = Append(path, Node("Provider", environment, "none"))
    /\ UNCHANGED <<created, emitterVars>>

\* a component that calls useEnvironment() renders, then its children
Component ==
    /\ Len(path) < MaxTreeDepth
    /\ path' = Append(path, Node("Component", "none", useEnvironment))
    /\ UNCHANGED <<current, valueStack, created, emitterVars>>

\* <EnvironmentConsumer> calls its child function with the context's value
EnvironmentConsumer ==
    /\ Len(path) < MaxTreeDepth
    /\ path' = Append(path, Node("Consumer", "none", current))
    /\ UNCHANGED <<current, valueStack, created, emitterVars>>

\* the innermost element's subtree is complete; its parent notes which
\* child it has just rendered
Complete ==
    /\ path # <<>>
    /\ LET n == Len(path)
           done == path[n]
           child == IF done.kind = "Provider" THEN done.environment ELSE done.kind
           rest == SubSeq(path, 1, n - 1)
       IN  /\ path' = IF n = 1 THEN rest
                      ELSE [rest EXCEPT ![n - 1].lastChild = child]
           /\ IF done.kind = "Provider"
              THEN popProvider
              ELSE UNCHANGED <<current, valueStack>>
    /\ UNCHANGED <<created, emitterVars>>

NextEnv ==
    \/ \E environment \in Environments : EnvironmentProvider(environment)
    \/ Component
    \/ EnvironmentConsumer
    \/ Complete
    \/ CreateEnvironment

(* --------------------------- specifications --------------------------- *)

\* createEmitter() and defineEnvironment() have returned; nothing is rendered
Init ==
    /\ listeners = <<>>
    /\ disposers = <<>>
    /\ pass = NoPass
    /\ path = <<>>
    /\ current = environmentContext.defaultValue
    /\ valueStack = <<>>
    /\ created = NoCreate

\* the emitter alone, and the environment accessors alone
SpecEmitter == Init /\ [][NextEmitter]_vars
SpecEnv == Init /\ [][NextEnv]_vars

(* --------------------------- emitter claims --------------------------- *)

Range(arr) == {arr[i] : i \in DOMAIN arr}
Count(arr, x) == Cardinality({i \in DOMAIN arr : arr[i] = x})
\* the listeners an emit call has invoked, in order
Invoked(f) == [i \in 1..Len(f.log) |-> f.log[i].listener]
Distinct(subs) ==
    \A i, j \in DOMAIN subs : subs[i].listener = subs[j].listener => i = j
NeverDisposed(sub) == sub.calls = 0
\* the subscriptions whose disposer has not been called, oldest first
StillSubscribed(subs) ==
    LET live == SelectSeq(subs, NeverDisposed)
    IN  [i \in 1..Len(live) |-> live[i].listener]
\* nothing was subscribed or disposed while the emit call ran
QuietPass == disposers = pass.startSubs

\* C1: after subscribe calls only (no disposer has been called), an emit
\* that returns has invoked every listener subscribed before it exactly
\* once, in subscription order, each with the emitted event, and no
\* invocation is still running.
C1_EmitInvokesAllInOrder ==
    (pass.outcome = "returned" /\ \A d \in DOMAIN disposers : disposers[d].calls = 0)
        => /\ pass.log = [i \in 1..Len(pass.startSubs) |->
                             [listener |-> pass.startSubs[i].listener,
                              event |-> pass.event]]
           /\ ~pass.running

C1_Witness ==
    /\ pass.outcome = "returned"
    /\ \A d \in DOMAIN disposers : disposers[d].calls = 0
    /\ Len(pass.log) = 3
    /\ pass.log[1].listener # pass.log[2].listener

\* C2: when a disposer has been called once, with no emit in progress, a
\* later emit does not invoke that subscription's listener and invokes
\* every other still-subscribed listener exactly once, in subscription
\* order. Stated for distinct listeners, disposers called only while no
\* emit was in progress, and an emit during which nothing is subscribed
\* or disposed.
C2_DisposedOnceOutsideEmit ==
    (/\ pass.outcome = "returned"
     /\ QuietPass
     /\ Distinct(pass.startSubs)
     /\ \A d \in DOMAIN pass.startSubs : ~pass.startSubs[d].inEmit
     /\ \E d \in DOMAIN pass.startSubs : pass.startSubs[d].calls = 1)
        => /\ \A d \in DOMAIN pass.startSubs :
                  pass.startSubs[d].calls = 1
                      => pass.startSubs[d].listener \notin Range(Invoked(pass))
           /\ Invoked(pass) = StillSubscribed(pass.startSubs)

\* C3: a disposer called from a listener while emit iterates leaves the
\* pass in progress alone: the emit still invokes every listener that was
\* registered when it began exactly once, in order. Stated for an emit
\* before which no disposer was called and during which nothing is
\* subscribed.
C3_DisposeDuringEmitKeepsPass ==
    (/\ pass.outcome = "returned"
     /\ \A d \in DOMAIN pass.startSubs : pass.startSubs[d].calls = 0
     /\ Len(disposers) = Len(pass.startSubs))
        => Invoked(pass) = pass.start

\* C4: a second call of a disposer, once its listener is no longer in the
\* sequence, leaves the sequence as it was.
C4_SecondDisposeIsNoOp ==
    [][\A d \in DOMAIN disposers :
          (/\ disposers'[d].calls = disposers[d].calls + 1
           /\ disposers[d].calls >= 1
           /\ IndexOf(listeners, disposers[d].listener) = -1)
              => listeners' = listeners]_vars

\* C5: when a listener throws, the exception ends the emit call; the
\* listeners subscribed before the failing one have each been invoked
\* exactly once and none subscribed after it is invoked. Stated for
\* distinct listeners and an emit during which nothing is subscribed.
C5_ThrowAbortsAfterEarlierListeners ==
    (/\ pass.outcome = "threw"
     /\ Distinct(pass.startSubs)
     /\ Len(disposers) = Len(pass.startSubs))
        => Invoked(pass) = SubSeq(pass.start, 1, Len(pass.log))

\* C9: a listener subscribed k >= 2 times, j of whose disposers have each
\* been called once with no emit in progress, has exactly k - j entries in
\* the sequence.
C9_DuplicatesIndependentlyUnsubscribable ==
    \A l \in ListenerIds :
        LET mine == {d \in DOMAIN disposers : disposers[d].listener = l}
        IN  (/\ Cardinality(mine) >= 2
             /\ \A d \in mine : disposers[d].calls <= 1
             /\ \A d \in DOMAIN disposers : ~disposers[d].inEmit)
                => Count(listeners, l) =
                       Cardinality({d \in mine : disposers[d].calls = 0})

\* C10: a listener subscribed from inside a listener while emit iterates
\* is not invoked by that emit call. Stated for distinct listeners.
C10_SubscribedDuringEmitNotInvoked ==
    \A s \in DOMAIN disposers :
        (/\ ~Idle
         /\ Distinct(disposers)
         /\ s > Len(pass.startSubs)
         /\ disposers[s].listener \notin Range(pass.start))
            => disposers[s].listener \notin Range(Invoked(pass))

(* ------------------------- environment claims ------------------------- *)

Readers == {"Component", "Consumer"}
\* the Providers enclosing the i-th element of the path, outermost first
Enclosing(i) == SelectSeq(SubSeq(path, 1, i - 1), LAMBDA n : n.kind = "Provider")

\* C6: a reader with at least one enclosing Provider returns the
\* environment of the nearest enclosing Provider, whatever lies between
\* them and whatever was rendered before.
C6_ReaderReturnsNearestProvider ==
    \A i \in DOMAIN path :
        (path[i].kind \in Readers /\ Enclosing(i) # <<>>)
            => path[i].read = Enclosing(i)[Len(Enclosing(i))].environment

\* E1 outside, E2 inside: a reader rendered after the inner Provider was
\* left, below a component inside the outer Provider, returns E1
C6_Witness ==
    /\ Len(path) = 3
    /\ path[1].kind = "Provider" /\ path[1].environment = "E1"
    /\ path[2].kind = "Component" /\ path[2].lastChild = "E2"
    /\ path[3].kind = "Consumer" /\ path[3].read = "E1"

\* C7: a reader with no enclosing Provider returns the context's null
\* default, which is no environment a Provider is given.
C7_ReaderOutsideProviderReturnsNull ==
    \A i \in DOMAIN path :
        (path[i].kind \in Readers /\ Enclosing(i) = <<>>)
            => /\ path[i].read = "null"
               /\ path[i].read \notin Environments

\* a reader outside any Provider, rendered after a Provider was left
C7_Witness ==
    /\ Len(path) = 2
    /\ path[1].kind = "Component" /\ path[1].lastChild \in Environments
    /\ path[2].kind = "Component" /\ path[2].read = "null"

\* C8: createEnvironment calls the factory once and ends as that call
\* ended: with the value it returned, or with the exception it threw.
C8_CreateEnvironmentPassesThrough ==
    created.calls # 0
        => /\ created.calls = 1
           /\ created.outcome = created.constr[1]

C8_Witness ==
    /\ created.calls = 1
    /\ created.outcome.kind = "throw"
    /\ created.constr[2].kind = "return"

====
